---- MODULE Spec2Model ----
(***************************************************************************)
(* AI Prompt Enhancer (browser extension).                                 *)
(*                                                                         *)
(*   background service worker  src/unnamed/part_002  (prompt rewriter,    *)
(*                              message handlers, usage statistics)        *)
(*   content script             src/unnamed/part_000  (button, modal,      *)
(*                              enhancePrompt with transport retries)      *)
(*                                                                         *)
(* A JavaScript string is a sequence of one-character strings, so that     *)
(* String.prototype.includes, toLowerCase, trim and concatenation are      *)
(* computed character by character.                                        *)
(***************************************************************************)
EXTENDS Integers, Sequences, FiniteSets, TLC

VARIABLES
    \* the prompt rewriter called as a function (processEnhancement)
    rwPrompt, rwOptions, rwCalls, rwFirst, rwSecond,
    \* the background service worker
    req,                \* the messages received, each with its handler's position
    usageStats,         \* chrome.storage.local
    totalPrompts,
    totalEnhancements,
    lastUpdated,
    settings,           \* chrome.storage.sync
    now,                \* Date.now()
    cleanup,            \* the run of cleanupOldUsageData
    cleanups,           \* how often the cleanup interval has fired
    logged,             \* every entry logUsage was called for, by action, in call order
    answered,           \* enhancePrompt requests answered with success = true
    \* the content script
    inputValue,         \* promptInput.value
    btnDisabled,        \* enhanceBtn.disabled
    calls,              \* the clicks on Enhance, each with its enhancePrompt calls
    resultContent,      \* resultContent.textContent
    resultVisible,      \* resultSection.style.display = 'block'
    page,               \* the document: its readyState, its search bars, what was added
    scripts             \* the injected instances of the content script

rwVars == <<rwPrompt, rwOptions, rwCalls, rwFirst, rwSecond>>

-----------------------------------------------------------------------------
(* String literals of the source.                                          *)

\* "Please "
PleasePrefix ==
    <<"P", "l", "e", "a", "s", "e", " ">>

\* "\n\nPlease provide a clear, well-structured response."
ClarityClosing ==
    <<"\n", "\n", "P", "l", "e", "a", "s", "e", " ", "p", "r", "o", "v", "i", "d", "e",
      " ", "a", " ", "c", "l", "e", "a", "r", ",", " ", "w", "e", "l", "l", "-", "s",
      "t", "r", "u", "c", "t", "u", "r", "e", "d", " ", "r", "e", "s", "p", "o", "n",
      "s", "e", ".">>

\* "As an AI assistant with expertise in this area, "
PersonaPrefix ==
    <<"A", "s", " ", "a", "n", " ", "A", "I", " ", "a", "s", "s", "i", "s", "t", "a",
      "n", "t", " ", "w", "i", "t", "h", " ", "e", "x", "p", "e", "r", "t", "i", "s",
      "e", " ", "i", "n", " ", "t", "h", "i", "s", " ", "a", "r", "e", "a", ",", " ">>

\* "\n\nPlease explain this in a way that would be helpful for someone learning about this topic."
LearnerClosing ==
    <<"\n", "\n", "P", "l", "e", "a", "s", "e", " ", "e", "x", "p", "l", "a", "i", "n",
      " ", "t", "h", "i", "s", " ", "i", "n", " ", "a", " ", "w", "a", "y", " ", "t",
      "h", "a", "t", " ", "w", "o", "u", "l", "d", " ", "b", "e", " ", "h", "e", "l",
      "p", "f", "u", "l", " ", "f", "o", "r", " ", "s", "o", "m", "e", "o", "n", "e",
      " ", "l", "e", "a", "r", "n", "i", "n", "g", " ", "a", "b", "o", "u", "t", " ",
      "t", "h", "i", "s", " ", "t", "o", "p", "i", "c", ".">>

\* "\n\nPlease organize your response with clear sections, bullet points, or numbered steps where appropriate."
OrganizeClosing ==
    <<"\n", "\n", "P", "l", "e", "a", "s", "e", " ", "o", "r", "g", "a", "n", "i", "z",
      "e", " ", "y", "o", "u", "r", " ", "r", "e", "s", "p", "o", "n", "s", "e", " ",
      "w", "i", "t", "h", " ", "c", "l", "e", "a", "r", " ", "s", "e", "c", "t", "i",
      "o", "n", "s", ",", " ", "b", "u", "l", "l", "e", "t", " ", "p", "o", "i", "n",
      "t", "s", ",", " ", "o", "r", " ", "n", "u", "m", "b", "e", "r", "e", "d", " ",
      "s", "t", "e", "p", "s", " ", "w", "h", "e", "r", "e", " ", "a", "p", "p", "r",
      "o", "p", "r", "i", "a", "t", "e", ".">>

\* "\n\nPlease provide a brief summary or key takeaways at the end."
SummaryClosing ==
    <<"\n", "\n", "P", "l", "e", "a", "s", "e", " ", "p", "r", "o", "v", "i", "d", "e",
      " ", "a", " ", "b", "r", "i", "e", "f", " ", "s", "u", "m", "m", "a", "r", "y",
      " ", "o", "r", " ", "k", "e", "y", " ", "t", "a", "k", "e", "a", "w", "a", "y",
      "s", " ", "a", "t", " ", "t", "h", "e", " ", "e", "n", "d", ".">>

\* "Hello world"
HelloWorld ==
    <<"H", "e", "l", "l", "o", " ", "w", "o", "r", "l", "d">>

\* "please"
G_please ==
    <<"p", "l", "e", "a", "s", "e">>

\* "could you"
G_could_you ==
    <<"c", "o", "u", "l", "d", " ", "y", "o", "u">>

\* "format"
G_format ==
    <<"f", "o", "r", "m", "a", "t">>

\* "output"
G_output ==
    <<"o", "u", "t", "p", "u", "t">>

\* "as a"
G_as_a ==
    <<"a", "s", " ", "a">>

\* "acting as"
G_acting_as ==
    <<"a", "c", "t", "i", "n", "g", " ", "a", "s">>

\* "for"
G_for ==
    <<"f", "o", "r">>

\* "targeting"
G_targeting ==
    <<"t", "a", "r", "g", "e", "t", "i", "n", "g">>

\* "list"
G_list ==
    <<"l", "i", "s", "t">>

\* "bullet"
G_bullet ==
    <<"b", "u", "l", "l", "e", "t">>

\* "step"
G_step ==
    <<"s", "t", "e", "p">>

\* "summary"
G_summary ==
    <<"s", "u", "m", "m", "a", "r", "y">>

\* "conclusion"
G_conclusion ==
    <<"c", "o", "n", "c", "l", "u", "s", "i", "o", "n">>

\* "summarize this article"
W_summarize_this_article ==
    <<"s", "u", "m", "m", "a", "r", "i", "z", "e", " ", "t", "h", "i", "s", " ", "a",
      "r", "t", "i", "c", "l", "e">>

\* "as a teacher, explain this for students"
W_as_a_teacher_explain ==
    <<"a", "s", " ", "a", " ", "t", "e", "a", "c", "h", "e", "r", ",", " ", "e", "x",
      "p", "l", "a", "i", "n", " ", "t", "h", "i", "s", " ", "f", "o", "r", " ", "s",
      "t", "u", "d", "e", "n", "t", "s">>

\* "please act as a guide for a trip to Rome" (40 characters)
W_please_act_as_a_guide ==
    <<"p", "l", "e", "a", "s", "e", " ", "a", "c", "t", " ", "a", "s", " ", "a", " ",
      "g", "u", "i", "d", "e", " ", "f", "o", "r", " ", "a", " ", "t", "r", "i", "p",
      " ", "t", "o", " ", "R", "o", "m", "e">>

\* "Could You "
W_Could_You ==
    <<"C", "o", "u", "l", "d", " ", "Y", "o", "u", " ">>

\* "PLEASE "
W_PLEASE ==
    <<"P", "L", "E", "A", "S", "E", " ">>

\* " in JSON Format"
W_FORMAT ==
    <<" ", "i", "n", " ", "J", "S", "O", "N", " ", "F", "o", "r", "m", "a", "t">>

\* " output"
W_output ==
    <<" ", "o", "u", "t", "p", "u", "t">>

\* "Acting as a critic, "
W_Acting_as ==
    <<"A", "c", "t", "i", "n", "g", " ", "a", "s", " ", "a", " ", "c", "r", "i", "t",
      "i", "c", ",", " ">>

\* " targeting experts"
W_targeting ==
    <<" ", "t", "a", "r", "g", "e", "t", "i", "n", "g", " ", "e", "x", "p", "e", "r",
      "t", "s">>

\* " as a List"
W_list ==
    <<" ", "a", "s", " ", "a", " ", "L", "i", "s", "t">>

\* " step by step"
W_steps ==
    <<" ", "s", "t", "e", "p", " ", "b", "y", " ", "s", "t", "e", "p">>

\* " with a conclusion"
W_conclusion ==
    <<" ", "w", "i", "t", "h", " ", "a", " ", "c", "o", "n", "c", "l", "u", "s", "i",
      "o", "n">>

\* " "
W_space ==
    <<" ">>

\* "hi"
W_hi ==
    <<"h", "i">>

-----------------------------------------------------------------------------
(* JavaScript strings and values.                                          *)

UpperCaseLetters ==
    <<"A", "B", "C", "D", "E", "F", "G", "H", "I", "J", "K", "L", "M",
      "N", "O", "P", "Q", "R", "S", "T", "U", "V", "W", "X", "Y", "Z">>

LowerCaseLetters ==
    <<"a", "b", "c", "d", "e", "f", "g", "h", "i", "j", "k", "l", "m",
      "n", "o", "p", "q", "r", "s", "t", "u", "v", "w", "x", "y", "z">>

\* the lower-case letter of each upper-case letter
LowerCaseOf ==
    [c \in {UpperCaseLetters[i] : i \in 1..26} |->
        LowerCaseLetters[CHOOSE i \in 1..26 : UpperCaseLetters[i] = c]]

\* String.prototype.toLowerCase, one character
toLowerCaseChar(c) ==
    IF c \in DOMAIN LowerCaseOf THEN LowerCaseOf[c] ELSE c

\* String.prototype.toLowerCase
toLowerCase(s) ==
    [i \in 1..Len(s) |-> toLowerCaseChar(s[i])]

\* String.prototype.includes: needle occurs in s as a contiguous substring
includes(s, needle) ==
    \E i \in 1..(Len(s) - Len(needle) + 1) :
        \A j \in 1..Len(needle) : s[i + j - 1] = needle[j]

\* the characters String.prototype.trim removes (those the model's texts use)
WhiteSpace == {" ", "\n", "\t"}

\* String.prototype.trim
trim(s) ==
    LET keep == {i \in 1..Len(s) : s[i] \notin WhiteSpace}
    IN  IF keep = {} THEN <<>>
        ELSE SubSeq(s, CHOOSE i \in keep : \A j \in keep : i <= j,
                       CHOOSE i \in keep : \A j \in keep : j <= i)

\* JavaScript values an option flag or a stored setting can hold
JsValues == {"true", "false", "undefined", "null", "yes"}

\* ToBoolean of a JavaScript value
Truthy(v) == v \notin {"false", "undefined", "null"}

\* the options object of an enhancePrompt request; defined = FALSE is a request
\* without options (options === undefined)
OptionsObject(c, a, s) ==
    [defined |-> TRUE, enhanceClarity |-> c, addContext |-> a, improveStructure |-> s]

NoOptions ==
    [defined |-> FALSE, enhanceClarity |-> "undefined", addContext |-> "undefined",
     improveStructure |-> "undefined"]

\* {} : an options object with every flag absent
EmptyOptions == OptionsObject("undefined", "undefined", "undefined")

-----------------------------------------------------------------------------
(* The prompt rewriter.  A step's fault says where its try block raises:   *)
(* "none", in its "first" insertion, or in its "second" insertion.         *)

FaultKinds == {"none", "first", "second"}

NoFaults == [clarity |-> "none", context |-> "none", structure |-> "none"]

\* enhanceClarityLogic with "enhanced = ..." for "enhanced += ..." (line 168)
enhanceClarityLogic_assigns(prompt, fault) ==
    LET e1 == IF /\ ~includes(toLowerCase(prompt), G_please)
                 /\ ~includes(toLowerCase(prompt), G_could_you)
              THEN PleasePrefix \o prompt
              ELSE prompt
        e2 == IF /\ ~includes(toLowerCase(e1), G_format)
                 /\ ~includes(toLowerCase(e1), G_output)
              THEN ClarityClosing
              ELSE e1
    IN  IF fault = "none" THEN e2 ELSE prompt

\* enhanceClarityLogic with "return enhanced" for "return prompt" in its catch
\* block (line 174)
enhanceClarityLogic_returnsEnhanced(prompt, fault) ==
    LET e1 == IF /\ ~includes(toLowerCase(prompt), G_please)
                 /\ ~includes(toLowerCase(prompt), G_could_you)
              THEN PleasePrefix \o prompt
              ELSE prompt
        e2 == IF /\ ~includes(toLowerCase(e1), G_format)
                 /\ ~includes(toLowerCase(e1), G_output)
              THEN e1 \o ClarityClosing
              ELSE e1
    IN  IF fault = "none" THEN e2 ELSE IF fault = "second" THEN e1 ELSE prompt

\* enhanceClarityLogic testing "enhanced.includes(...)" without toLowerCase()
\* (lines 163, 167)
enhanceClarityLogic_caseSensitive(prompt, fault) ==
    LET e1 == IF /\ ~includes(prompt, G_please)
                 /\ ~includes(prompt, G_could_you)
              THEN PleasePrefix \o prompt
              ELSE prompt
        e2 == IF /\ ~includes(e1, G_format)
                 /\ ~includes(e1, G_output)
              THEN e1 \o ClarityClosing
              ELSE e1
    IN  IF fault = "none" THEN e2 ELSE prompt

enhanceClarityLogic(prompt, fault) ==
    LET e1 == IF /\ ~includes(toLowerCase(prompt), G_please)
                 /\ ~includes(toLowerCase(prompt), G_could_you)
              THEN PleasePrefix \o prompt
              ELSE prompt
        e2 == IF /\ ~includes(toLowerCase(e1), G_format)
                 /\ ~includes(toLowerCase(e1), G_output)
              THEN e1 \o ClarityClosing
              ELSE e1
    IN  IF fault = "none" THEN e2 ELSE prompt

\* addContextLogic with "else if" for the second "if" (line 186)
addContextLogic_elseIf(prompt, fault) ==
    LET e2 == IF /\ ~includes(toLowerCase(prompt), G_as_a)
                 /\ ~includes(toLowerCase(prompt), G_acting_as)
              THEN PersonaPrefix \o prompt
              ELSE IF /\ ~includes(toLowerCase(prompt), G_for)
                      /\ ~includes(toLowerCase(prompt), G_targeting)
                   THEN prompt \o LearnerClosing
                   ELSE prompt
    IN  IF fault = "none" THEN e2 ELSE prompt

addContextLogic(prompt, fault) ==
    LET e1 == IF /\ ~includes(toLowerCase(prompt), G_as_a)
                 /\ ~includes(toLowerCase(prompt), G_acting_as)
              THEN PersonaPrefix \o prompt
              ELSE prompt
        e2 == IF /\ ~includes(toLowerCase(e1), G_for)
                 /\ ~includes(toLowerCase(e1), G_targeting)
              THEN e1 \o LearnerClosing
              ELSE e1
    IN  IF fault = "none" THEN e2 ELSE prompt

\* improveStructureLogic with "||" for "&&" in its first test (line 201)
improveStructureLogic_anyMissing(prompt, fault) ==
    LET e1 == IF \/ ~includes(toLowerCase(prompt), G_list)
                 \/ ~includes(toLowerCase(prompt), G_bullet)
                 \/ ~includes(toLowerCase(prompt), G_step)
              THEN prompt \o OrganizeClosing
              ELSE prompt
        e2 == IF /\ ~includes(toLowerCase(e1), G_summary)
                 /\ ~includes(toLowerCase(e1), G_conclusion)
              THEN e1 \o SummaryClosing
              ELSE e1
    IN  IF fault = "none" THEN e2 ELSE prompt

improveStructureLogic(prompt, fault) ==
    LET e1 == IF /\ ~includes(toLowerCase(prompt), G_list)
                 /\ ~includes(toLowerCase(prompt), G_bullet)
                 /\ ~includes(toLowerCase(prompt), G_step)
              THEN prompt \o OrganizeClosing
              ELSE prompt
        e2 == IF /\ ~includes(toLowerCase(e1), G_summary)
                 /\ ~includes(toLowerCase(e1), G_conclusion)
              THEN e1 \o SummaryClosing
              ELSE e1
    IN  IF fault = "none" THEN e2 ELSE prompt

\* the value processEnhancement resolves to, or the error it rejects with
Returned(s) == [threw |-> FALSE, value |-> s, message |-> ""]

Thrown(msg) == [threw |-> TRUE, value |-> <<>>, message |-> msg]

\* processEnhancement testing "options.enhanceClarity !== false", as
\* handleGetSettings does, for "options.enhanceClarity" (line 139)
processEnhancement_defaultOn(prompt, options, faults) ==
    IF ~options.defined
    THEN Thrown("Failed to process prompt enhancement")
    ELSE LET c == IF options.enhanceClarity # "false"
                  THEN enhanceClarityLogic(prompt, faults.clarity) ELSE prompt
             a == IF Truthy(options.addContext)
                  THEN addContextLogic(c, faults.context) ELSE c
             s == IF Truthy(options.improveStructure)
                  THEN improveStructureLogic(a, faults.structure) ELSE a
         IN  Returned(s)

\* processEnhancement with the context step before the clarity step
\* (lines 139-145 exchanged)
processEnhancement_contextFirst(prompt, options, faults) ==
    IF ~options.defined
    THEN Thrown("Failed to process prompt enhancement")
    ELSE LET a == IF Truthy(options.addContext)
                  THEN addContextLogic(prompt, faults.context) ELSE prompt
             c == IF Truthy(options.enhanceClarity)
                  THEN enhanceClarityLogic(a, faults.clarity) ELSE a
             s == IF Truthy(options.improveStructure)
                  THEN improveStructureLogic(c, faults.structure) ELSE c
         IN  Returned(s)

processEnhancement(prompt, options, faults) ==
    IF ~options.defined
    THEN Thrown("Failed to process prompt enhancement")
    ELSE LET c == IF Truthy(options.enhanceClarity)
                  THEN enhanceClarityLogic(prompt, faults.clarity) ELSE prompt
             a == IF Truthy(options.addContext)
                  THEN addContextLogic(c, faults.context) ELSE c
             s == IF Truthy(options.improveStructure)
                  THEN improveStructureLogic(a, faults.structure) ELSE a
         IN  Returned(s)

-----------------------------------------------------------------------------
(* Bounds and inputs.                                                      *)

\* CONFIG of the background service worker (retention in days)
CONFIG_maxRetries == 3

CONFIG_maxStorageEntries == 100

CONFIG_dataRetentionDays == 30

MaxRequests == 2

MaxCleanups == 1

MaxTicks == 1

\* Date.now(), in days, when a behaviour starts
StartDay == 40

\* a day before the retention horizon of StartDay, and a day within it
OldDay == StartDay - CONFIG_dataRetentionDays - 5

RecentDay == StartDay - 1

Slots == 1..MaxRequests

MaxFragments == 2

Fragments ==
    { W_summarize_this_article, W_as_a_teacher_explain, W_hi, W_Could_You, W_PLEASE,
      W_FORMAT, W_output, W_Acting_as, W_targeting, W_list, W_steps, W_conclusion }

RECURSIVE TextsOf(_)
TextsOf(n) ==
    IF n = 0 THEN {<<>>}
    ELSE TextsOf(n - 1) \cup {t \o f : t \in TextsOf(n - 1), f \in Fragments}

Texts == TextsOf(MaxFragments)

BooleanOptions ==
    {OptionsObject(c, a, s) : c \in {"true", "false"}, a \in {"true", "false"},
                              s \in {"true", "false"}}

\* processEnhancement not called
RewriterIdle ==
    /\ rwPrompt = <<>>
    /\ rwOptions = EmptyOptions
    /\ rwCalls = 0
    /\ rwFirst = Returned(<<>>)
    /\ rwSecond = Returned(<<>>)

-----------------------------------------------------------------------------
(* The background service worker: chrome.storage, the message handlers and *)
(* the usage statistics.  Date.now() is counted in days.                   *)

\* the actions logUsage is called with
LogActions == {"prompt_enhanced", "settings_updated"}

\* chrome.runtime.lastError.message of a failed chrome.storage call
StorageErrorMessage == "QUOTA_BYTES quota exceeded"

\* error.message.includes('storage') || error.message.includes('quota')
includesStorageOrQuota(message) == message \in {StorageErrorMessage}

\* usageStats with no key
EmptyStats == [a \in LogActions |-> <<>>]

\* one element of usageStats[action]: { timestamp, data }
Entry(timestamp, data) == [timestamp |-> timestamp, data |-> data]

\* Array.prototype.slice(-n)
sliceLast(list, n) ==
    IF Len(list) > n THEN SubSeq(list, Len(list) - n + 1, Len(list)) ELSE list

\* the binade of the quotient n / dn of two positive integers: <<P, N, D>> with
\* 2^P <= n / dn < 2^(P + 1) and N / D = (n / dn) / 2^P
RECURSIVE binade(_, _, _)
binade(P, n, dn) ==
    IF n >= 2 * dn THEN binade(P + 1, n, 2 * dn)
    ELSE IF n < dn THEN binade(P - 1, 2 * n, dn)
    ELSE <<P, n, dn>>

\* i more binary digits of a quotient with remainder r and divisor D:
\* <<the remainder left, the last digit>>
RECURSIVE longDivision(_, _, _, _)
longDivision(i, r, digit, D) ==
    IF i = 0 THEN <<r, digit>>
    ELSE IF 2 * r >= D THEN longDivision(i - 1, 2 * r - D, 1, D)
    ELSE longDivision(i - 1, 2 * r, 0, D)

\* Math.round(((enhancedLength - originalLength) / originalLength) * 100), in
\* IEEE 754 doubles (53-digit significands, round to nearest, ties to even):
\* the difference d is exact; the quotient d / o is rounded to a double, its
\* product with 100 is rounded again, and Math.round rounds halves up.  Away from
\* a half the two roundings cannot move the product across it.  When 100 * d / o
\* is exactly k + 1/2, the result is k + 1 unless the quotient was rounded down by
\* enough for the product to be rounded to the double below k + 1/2: by more than
\* half the spacing of the doubles there (a quarter when k + 1/2 = 1/2, below
\* which the doubles are twice as dense).
improvement(originalLength, enhancedLength) ==
    LET o == originalLength
        d == enhancedLength - originalLength
        half == (200 * d) % o = 0 /\ ((200 * d) \div o) % 2 = 1
        k == ((200 * d) \div o - 1) \div 2
        q == binade(0, d, o)
        x == binade(0, 2 * k + 1, 2)
        D == q[3]
        left == longDivision(52, q[2] - D, 1, D)
        roundedDown == left[1] > 0 /\ (2 * left[1] < D \/ (2 * left[1] = D /\ left[2] = 0))
        error == 200 * left[1]
        spacing == D * 2^(x[1] - q[1])
    IN  IF ~half THEN (200 * d + o) \div (2 * o)
        ELSE IF roundedDown /\ (IF k = 0 THEN 2 * error > spacing ELSE error > spacing)
             THEN k
             ELSE k + 1

\* an updateSettings request's data: the keys it sets ("undefined": key absent)
NoSettingsData ==
    [enhanceClarity |-> "undefined", addContext |-> "undefined",
     improveStructure |-> "undefined"]

\* the responses passed to sendResponse; keys are the properties present
SuccessResponse(prompt, enhancedPrompt) ==
    [success |-> TRUE, keys |-> {"success", "enhancedPrompt", "stats"},
     enhancedPrompt |-> enhancedPrompt,
     stats |-> [originalLength |-> Len(prompt), enhancedLength |-> Len(enhancedPrompt),
                improvement |-> improvement(Len(prompt), Len(enhancedPrompt))],
     settings |-> NoSettingsData, error |-> ""]

FailureResponse(message) ==
    [success |-> FALSE, keys |-> {"success", "error"}, enhancedPrompt |-> <<>>,
     stats |-> [originalLength |-> 0, enhancedLength |-> 0, improvement |-> 0],
     settings |-> NoSettingsData, error |-> message]

SettingsUpdatedResponse ==
    [success |-> TRUE, keys |-> {"success"}, enhancedPrompt |-> <<>>,
     stats |-> [originalLength |-> 0, enhancedLength |-> 0, improvement |-> 0],
     settings |-> NoSettingsData, error |-> ""]

\* SettingsResponse with "|| false" for "!== false" (lines 228-229)
SettingsResponse_orFalse(result) ==
    [success |-> TRUE, keys |-> {"success", "settings"}, enhancedPrompt |-> <<>>,
     stats |-> [originalLength |-> 0, enhancedLength |-> 0, improvement |-> 0],
     settings |->
        [enhanceClarity |-> IF Truthy(result.enhanceClarity)
                            THEN result.enhanceClarity ELSE "false",
         addContext |-> IF Truthy(result.addContext)
                        THEN result.addContext ELSE "false",
         improveStructure |-> IF Truthy(result.improveStructure)
                              THEN result.improveStructure ELSE "false"],
     error |-> ""]

\* the response of handleGetSettings to the result of chrome.storage.sync.get
\* (lines 225-232): "!== false" for enhanceClarity and addContext, "|| false"
\* for improveStructure
SettingsResponse(result) ==
    [success |-> TRUE, keys |-> {"success", "settings"}, enhancedPrompt |-> <<>>,
     stats |-> [originalLength |-> 0, enhancedLength |-> 0, improvement |-> 0],
     settings |->
        [enhanceClarity |-> IF result.enhanceClarity # "false" THEN "true" ELSE "false",
         addContext |-> IF result.addContext # "false" THEN "true" ELSE "false",
         improveStructure |-> IF Truthy(result.improveStructure)
                              THEN result.improveStructure ELSE "false"],
     error |-> ""]

\* the object logUsage passes to chrome.storage.local.set
NoWrite ==
    [usageStats |-> EmptyStats, totalPrompts |-> 0, totalEnhancements |-> 0,
     lastUpdated |-> 0]

\* a message the background has not received yet
IdleRequest ==
    [kind |-> "none", pc |-> "idle", prompt |-> <<>>, options |-> NoOptions,
     faults |-> NoFaults, settingsData |-> NoSettingsData, retryCount |-> 0,
     enhanced |-> <<>>, logAction |-> "none", timestamp |-> 0, data |-> 0,
     write |-> NoWrite, responses |-> <<>>]

\* the periodic cleanup, not running
IdleCleanup ==
    [pc |-> "idle", cutoffDate |-> 0, write |-> EmptyStats, failed |-> FALSE]

\* logUsageCall for a handlePromptEnhancement that calls logUsage without
\* "await" (line 101) and so sends its response before logUsage has finished
logUsageCall_notAwaited(request, action, timestamp, data) ==
    [request EXCEPT !.pc = "log_get", !.logAction = action,
                    !.timestamp = timestamp, !.data = data,
                    !.responses = IF request.kind = "enhancePrompt"
                                  THEN Append(@, SuccessResponse(request.prompt,
                                                                 request.enhanced))
                                  ELSE @]

\* logUsage up to its chrome.storage.local.get call (lines 286-291)
logUsageCall(request, action, timestamp, data) ==
    [request EXCEPT !.pc = "log_get", !.logAction = action,
                    !.timestamp = timestamp, !.data = data]

\* logUsage from the result of get to its chrome.storage.local.set call
\* (lines 300-334): the object it writes
logUsageWrite(action, entry, storedStats, storedPrompts, storedEnhancements) ==
    [usageStats |->
        [storedStats EXCEPT ![action] =
            sliceLast(Append(storedStats[action], entry), CONFIG_maxStorageEntries)],
     totalPrompts |->
        IF action = "prompt_enhanced" THEN storedPrompts + 1 ELSE storedPrompts,
     totalEnhancements |->
        IF action = "prompt_enhanced" THEN storedEnhancements + 1 ELSE storedEnhancements,
     lastUpdated |-> entry.timestamp]

\* afterLogUsage without the sendResponse call of lines 108-116
afterLogUsage_silent(request) ==
    [request EXCEPT !.pc = "done", !.write = NoWrite]

\* what follows "await logUsage(...)" in handlePromptEnhancement (lines 108-116),
\* and nothing for the logUsage call of handleUpdateSettings (line 252)
afterLogUsage(request) ==
    IF request.kind = "enhancePrompt"
    THEN [request EXCEPT
            !.pc = "done", !.write = NoWrite,
            !.responses = Append(@, SuccessResponse(request.prompt, request.enhanced))]
    ELSE [request EXCEPT !.pc = "done", !.write = NoWrite]

\* the catch block of handlePromptEnhancement (lines 118-131)
handlePromptEnhancementCatch(request, message) ==
    IF request.retryCount < CONFIG_maxRetries /\ includesStorageOrQuota(message)
    THEN [request EXCEPT !.pc = "retry_wait"]
    ELSE [request EXCEPT !.pc = "done",
                         !.responses = Append(@, FailureResponse(message))]

\* logUsage with "throw error" in its catch block (line 346): the error reaches
\* the catch block of the handler that awaits logUsage
logUsageCatch_rethrows(request, message) ==
    IF request.kind = "enhancePrompt"
    THEN handlePromptEnhancementCatch(request, message)
    ELSE afterLogUsage(request)

\* the catch block of logUsage (lines 344-347): the error is logged and dropped,
\* and the caller goes on
logUsageCatch(request, message) ==
    afterLogUsage(request)

\* handlePromptEnhancement testing "!prompt" alone, without "!prompt.trim()"
\* (line 92)
handlePromptEnhancement_noTrim(request, timestamp, data) ==
    IF Len(request.prompt) = 0
    THEN [request EXCEPT !.pc = "done",
                         !.responses = Append(@, FailureResponse("No prompt provided"))]
    ELSE LET result == processEnhancement(request.prompt, request.options, request.faults)
         IN  IF result.threw
             THEN handlePromptEnhancementCatch(request, result.message)
             ELSE logUsageCall([request EXCEPT !.enhanced = result.value],
                               "prompt_enhanced", timestamp, data)

\* handlePromptEnhancement up to the first callback it waits for (lines 88-101)
handlePromptEnhancement(request, timestamp, data) ==
    IF Len(request.prompt) = 0 \/ Len(trim(request.prompt)) = 0
    THEN [request EXCEPT !.pc = "done",
                         !.responses = Append(@, FailureResponse("No prompt provided"))]
    ELSE LET result == processEnhancement(request.prompt, request.options, request.faults)
         IN  IF result.threw
             THEN handlePromptEnhancementCatch(request, result.message)
             ELSE logUsageCall([request EXCEPT !.enhanced = result.value],
                               "prompt_enhanced", timestamp, data)

\* keys of chrome.storage.sync set by data replace the stored ones
mergeSettings(stored, data) ==
    [k \in DOMAIN stored |-> IF data[k] = "undefined" THEN stored[k] ELSE data[k]]

\* usageStats[action].filter(entry => entry.timestamp > cutoffDate), every action
filterRecent(stats, cutoffDate) ==
    [a \in LogActions |-> SelectSeq(stats[a], LAMBDA entry : entry.timestamp > cutoffDate)]

\* the flag "cleaned" of cleanupOldUsageData: a key was deleted (lines 403-406)
cleaned(stats, cutoffDate) ==
    \E a \in LogActions : stats[a] # <<>> /\ filterRecent(stats, cutoffDate)[a] = <<>>

\* the number of logUsage calls so far, which numbers the next entry's data
lastData == Len(logged["prompt_enhanced"]) + Len(logged["settings_updated"])

localVars == <<usageStats, totalPrompts, totalEnhancements, lastUpdated>>

bgVars == <<req, localVars, settings, now, cleanup, cleanups, logged, answered>>


\* chrome.runtime.onMessage, action 'enhancePrompt' (lines 57-64, 88-101)
ReceiveEnhancePrompt(r, prompt, options, faults) ==
    /\ req[r].kind = "none"
    /\ \A q \in DOMAIN req : q < r => req[q].kind # "none"
    /\ LET received == [IdleRequest EXCEPT !.kind = "enhancePrompt", !.prompt = prompt,
                                           !.options = options, !.faults = faults]
           handled == handlePromptEnhancement(received, now, lastData + 1)
       IN  /\ req' = [req EXCEPT ![r] = handled]
           /\ logged' = IF handled.pc = "log_get"
                        THEN [logged EXCEPT !["prompt_enhanced"] =
                                 Append(@, Entry(now, lastData + 1))]
                        ELSE logged
    /\ UNCHANGED <<localVars, settings, now, cleanup, cleanups, answered>>

\* the callback of chrome.storage.local.get in logUsage (lines 291-334, 344-347)
LogGetCallback(r, lastError) ==
    /\ req[r].pc = "log_get"
    /\ IF lastError
       THEN /\ req' = [req EXCEPT ![r] = logUsageCatch(@, StorageErrorMessage)]
            /\ answered' = IF req[r].kind = "enhancePrompt" THEN answered + 1 ELSE answered
       ELSE /\ req' = [req EXCEPT ![r].pc = "log_set",
                                  ![r].write =
                                      logUsageWrite(req[r].logAction,
                                                    Entry(req[r].timestamp, req[r].data),
                                                    usageStats, totalPrompts,
                                                    totalEnhancements)]
            /\ UNCHANGED answered
    /\ UNCHANGED <<localVars, settings, now, cleanup, cleanups, logged>>

\* the callback of chrome.storage.local.set in logUsage (lines 335-347) and
\* the rest of the handler that awaited logUsage
LogSetCallback(r, lastError) ==
    /\ req[r].pc = "log_set"
    /\ IF lastError
       THEN /\ UNCHANGED localVars
            /\ req' = [req EXCEPT ![r] = logUsageCatch(@, StorageErrorMessage)]
       ELSE /\ usageStats' = req[r].write.usageStats
            /\ totalPrompts' = req[r].write.totalPrompts
            /\ totalEnhancements' = req[r].write.totalEnhancements
            /\ lastUpdated' = req[r].write.lastUpdated
            /\ req' = [req EXCEPT ![r] = afterLogUsage(@)]
    /\ answered' = IF req[r].kind = "enhancePrompt" THEN answered + 1 ELSE answered
    /\ UNCHANGED <<settings, now, cleanup, cleanups, logged>>

\* chrome.runtime.onMessage, action 'updateSettings' (lines 70-72, 241-243)
ReceiveUpdateSettings(r, data) ==
    /\ req[r].kind = "none"
    /\ \A q \in DOMAIN req : q < r => req[q].kind # "none"
    /\ req' = [req EXCEPT ![r] = [IdleRequest EXCEPT !.kind = "updateSettings",
                                                     !.pc = "sync_set",
                                                     !.settingsData = data]]
    /\ UNCHANGED <<localVars, settings, now, cleanup, cleanups, logged, answered>>

\* the callback of chrome.storage.sync.set in handleUpdateSettings (lines 243-253)
SyncSetCallback(r, lastError) ==
    /\ req[r].pc = "sync_set"
    /\ IF lastError
       THEN /\ req' = [req EXCEPT ![r].pc = "done",
                                  ![r].responses =
                                      Append(@, FailureResponse(StorageErrorMessage))]
            /\ UNCHANGED <<settings, logged>>
       ELSE /\ settings' = mergeSettings(settings, req[r].settingsData)
            /\ req' = [req EXCEPT ![r] =
                          logUsageCall([@ EXCEPT !.responses =
                                                    Append(@, SettingsUpdatedResponse)],
                                       "settings_updated", now, lastData + 1)]
            /\ logged' = [logged EXCEPT !["settings_updated"] =
                             Append(@, Entry(now, lastData + 1))]
    /\ UNCHANGED <<localVars, now, cleanup, cleanups, answered>>

\* chrome.runtime.onMessage, action 'getSettings' (lines 66-68, 217-219)
ReceiveGetSettings(r) ==
    /\ req[r].kind = "none"
    /\ \A q \in DOMAIN req : q < r => req[q].kind # "none"
    /\ req' = [req EXCEPT ![r] = [IdleRequest EXCEPT !.kind = "getSettings",
                                                     !.pc = "sync_get"]]
    /\ UNCHANGED <<localVars, settings, now, cleanup, cleanups, logged, answered>>

\* the callback of chrome.storage.sync.get in handleGetSettings (lines 219-233)
SyncGetCallback(r, lastError) ==
    /\ req[r].pc = "sync_get"
    /\ req' = [req EXCEPT ![r].pc = "done",
                          ![r].responses =
                              Append(@, IF lastError THEN FailureResponse(StorageErrorMessage)
                                        ELSE SettingsResponse(settings))]
    /\ UNCHANGED <<localVars, settings, now, cleanup, cleanups, logged, answered>>

\* the cleanup interval fires: cleanupOldUsageData up to its get (lines 381-386)
CleanupStart ==
    /\ cleanup.pc \in {"idle", "done"}
    /\ cleanups < MaxCleanups
    /\ cleanup' = [IdleCleanup EXCEPT !.pc = "clean_get",
                                      !.cutoffDate = now - CONFIG_dataRetentionDays]
    /\ cleanups' = cleanups + 1
    /\ UNCHANGED <<req, localVars, settings, now, logged, answered>>

\* the callback of chrome.storage.local.get in cleanupOldUsageData (lines 386-411)
CleanupGetCallback(lastError) ==
    /\ cleanup.pc = "clean_get"
    /\ cleanup' =
          IF lastError
          THEN [cleanup EXCEPT !.pc = "done", !.failed = TRUE]
          ELSE IF cleaned(usageStats, cleanup.cutoffDate)
               THEN [cleanup EXCEPT !.pc = "clean_set",
                                    !.write = filterRecent(usageStats, cleanup.cutoffDate)]
               ELSE [cleanup EXCEPT !.pc = "done"]
    /\ UNCHANGED <<req, localVars, settings, now, cleanups, logged, answered>>

\* the callback of chrome.storage.local.set in cleanupOldUsageData (lines 411-425)
CleanupSetCallback(lastError) ==
    /\ cleanup.pc = "clean_set"
    /\ IF lastError
       THEN /\ cleanup' = [cleanup EXCEPT !.pc = "done", !.failed = TRUE, !.write = EmptyStats]
            /\ UNCHANGED usageStats
       ELSE /\ cleanup' = [cleanup EXCEPT !.pc = "done", !.write = EmptyStats]
            /\ usageStats' = cleanup.write
    /\ UNCHANGED <<req, totalPrompts, totalEnhancements, lastUpdated, settings, now,
                   cleanups, logged, answered>>

\* a day passes
Tick ==
    /\ now < StartDay + MaxTicks
    /\ now' = now + 1
    /\ UNCHANGED <<req, localVars, settings, cleanup, cleanups, logged, answered>>

-----------------------------------------------------------------------------
(* The content script: the Enhance button of the modal and enhancePrompt   *)
(* with its transport retries.                                             *)

\* the options the content script sends (lines 333-337)
PageOptions == OptionsObject("true", "true", "false")

config_maxRetries == 3

MaxClicks == 2

Clicks == 1..MaxClicks

\* what the user types into #prompt-input
InputValues == {<<>>, W_space, W_space \o W_hi \o W_space}

\* chrome.runtime.lastError.message of a sendMessage that got no response
TransportErrors ==
    { "Could not establish connection. Receiving end does not exist.",
      "Extension context invalidated.",
      "The message port closed before a response was received." }

\* error.message.includes('Could not establish connection') ||
\* error.message.includes('Extension context invalidated')
includesTransient(message) ==
    message \in { "Could not establish connection. Receiving end does not exist.",
                  "Extension context invalidated." }

\* promptInput.value.trim() || 'Hello world'
promptToSend(value) ==
    IF Len(trim(value)) = 0 THEN HelloWorld ELSE trim(value)

\* the response the background sends to an enhancePrompt message
backgroundResponse(prompt, options) ==
    LET received == [IdleRequest EXCEPT !.kind = "enhancePrompt", !.prompt = prompt,
                                        !.options = options]
        handled == handlePromptEnhancement(received, 0, 0)
    IN  IF handled.pc = "done" THEN handled.responses[1]
        ELSE afterLogUsage(handled).responses[1]

\* a click on Enhance that has not happened
NoCall ==
    [pc |-> "none", retryCount |-> 0, sends |-> 0, typed |-> <<>>, prompt |-> <<>>,
     options |-> NoOptions, error |-> "", notifications |-> <<>>]

\* enhancePrompt(retryCount) up to its await (lines 307-346)
enhancePromptSend(call, retryCount, value) ==
    [call EXCEPT !.pc = "sent", !.retryCount = retryCount, !.sends = @ + 1,
                 !.prompt = promptToSend(value), !.options = PageOptions]

\* the catch block of enhancePrompt retrying after any error (lines 365-378)
enhancePromptCatch_anyError(call, message) ==
    IF call.retryCount < config_maxRetries
    THEN [call EXCEPT !.pc = "timer", !.error = message]
    ELSE [call EXCEPT !.pc = "done", !.error = message,
                      !.notifications = Append(@, "error")]

\* the catch block of enhancePrompt (lines 365-378)
enhancePromptCatch(call, message) ==
    IF call.retryCount < config_maxRetries /\ includesTransient(message)
    THEN [call EXCEPT !.pc = "timer", !.error = message]
    ELSE [call EXCEPT !.pc = "done", !.error = message,
                      !.notifications = Append(@, "error")]

enhanceVars == <<inputValue, btnDisabled, calls, resultContent, resultVisible>>

domVars == <<page, scripts>>

ctVars == <<enhanceVars, domVars>>

\* the user edits the prompt field
TypeInput(value) ==
    /\ value # inputValue
    /\ inputValue' = value
    /\ UNCHANGED <<btnDisabled, calls, resultContent, resultVisible>>

\* a click on the enabled Enhance button: enhancePrompt() (lines 211, 307-346)
ClickEnhance(c) ==
    /\ ~btnDisabled
    /\ calls[c].pc = "none"
    /\ \A d \in Clicks : d < c => calls[d].pc # "none"
    /\ btnDisabled' = TRUE
    /\ resultVisible' = FALSE
    /\ calls' = [calls EXCEPT ![c] = enhancePromptSend([@ EXCEPT !.typed = inputValue],
                                                       0, inputValue)]
    /\ UNCHANGED <<inputValue, resultContent>>

\* the callback of chrome.runtime.sendMessage with a response (lines 339-363,
\* 365-383)
ResponseCallback(c) ==
    /\ calls[c].pc = "sent"
    /\ btnDisabled' = FALSE
    /\ UNCHANGED inputValue
    /\ LET response == backgroundResponse(calls[c].prompt, calls[c].options)
       IN  IF response.success
           THEN /\ resultContent' = response.enhancedPrompt
                /\ resultVisible' = TRUE
                /\ calls' = [calls EXCEPT ![c].pc = "done",
                                          ![c].notifications = Append(@, "success")]
           ELSE /\ calls' = [calls EXCEPT ![c] = enhancePromptCatch(@, response.error)]
                /\ UNCHANGED <<resultContent, resultVisible>>

\* the callback of chrome.runtime.sendMessage with chrome.runtime.lastError set
\* (lines 339-341, 365-383)
LastErrorCallback(c, message) ==
    /\ calls[c].pc = "sent"
    /\ calls' = [calls EXCEPT ![c] = enhancePromptCatch(@, message)]
    /\ btnDisabled' = FALSE
    /\ UNCHANGED <<inputValue, resultContent, resultVisible>>

\* the retry timer fires: enhancePrompt(retryCount + 1) (lines 374, 307-346)
RetryTimer(c) ==
    /\ calls[c].pc = "timer"
    /\ btnDisabled' = TRUE
    /\ resultVisible' = FALSE
    /\ calls' = [calls EXCEPT ![c] = enhancePromptSend(@, @.retryCount + 1, inputValue)]
    /\ UNCHANGED <<inputValue, resultContent>>

-----------------------------------------------------------------------------
(* The content script in the page: injection, the lookup of the search bar *)
(* with its retries, the enhancement button and the modal.                 *)

MaxInjections == 2

MaxBars == 2

\* the executions of content.js in one document, in the order of injection
Instances == 1..MaxInjections

\* the elements of the document that findGoogleSearchBar accepts when they are
\* visible, in the order in which it tries them
Bars == 1..MaxBars

\* a search bar that is not rendered and that no instance has handled
HiddenBar == [visible |-> FALSE, enhanced |-> FALSE, buttons |-> 0, modals |-> 0]

\* the state of the closure of an instance that has not run (lines 23-28)
NoScript ==
    [pc |-> "none", isInitialized |-> FALSE, enhancementButton |-> 0,
     enhancementModal |-> FALSE, find |-> "idle", retryCount |-> 0,
     isModalOpen |-> FALSE, show |-> FALSE, display |-> ""]

\* the element findGoogleSearchBar returns (lines 74-96): the first visible
\* search bar, 0 for null
visibleBar(pg) ==
    IF \E b \in Bars : pg.bars[b].visible
    THEN CHOOSE b \in Bars : pg.bars[b].visible /\ \A c \in Bars : pg.bars[c].visible => b <= c
    ELSE 0

\* findGoogleSearchBar(retryCount) of an instance (lines 71-111): a lookup that
\* finds nothing sets the timer of the next lookup while retryCount < maxRetries
findGoogleSearchBar(script, pg, retryCount) ==
    IF visibleBar(pg) # 0 THEN [script EXCEPT !.retryCount = retryCount]
    ELSE IF retryCount < config_maxRetries
         THEN [script EXCEPT !.find = "timer", !.retryCount = retryCount]
         ELSE [script EXCEPT !.find = "given_up", !.retryCount = retryCount]

\* setupEnhancement without the test of the class 'ai-enhanced' (line 60)
setupEnhancement_unmarked(st, i) ==
    LET bar == visibleBar(st.page)
        script == [findGoogleSearchBar(st.scripts[i], st.page, 0) EXCEPT !.pc = "ready"]
    IN  IF bar # 0
        THEN [page |-> [st.page EXCEPT
                           !.bars[bar].enhanced = TRUE,
                           !.bars[bar].buttons = @ + 1,
                           !.bars[bar].modals = IF script.enhancementModal THEN @ ELSE @ + 1],
              scripts |-> [st.scripts EXCEPT
                              ![i] = [script EXCEPT !.enhancementButton = bar,
                                                    !.enhancementModal = TRUE]]]
        ELSE [page |-> st.page, scripts |-> [st.scripts EXCEPT ![i] = script]]

\* setupEnhancement of instance i (lines 56-68) with addEnhancementButton and
\* createEnhancementModal (lines 114-200), on the document and the instances st
setupEnhancement(st, i) ==
    LET bar == visibleBar(st.page)
        script == [findGoogleSearchBar(st.scripts[i], st.page, 0) EXCEPT !.pc = "ready"]
    IN  IF bar # 0 /\ ~st.page.bars[bar].enhanced
        THEN [page |-> [st.page EXCEPT
                           !.bars[bar].enhanced = TRUE,
                           !.bars[bar].buttons = @ + 1,
                           !.bars[bar].modals = IF script.enhancementModal THEN @ ELSE @ + 1],
              scripts |-> [st.scripts EXCEPT
                              ![i] = [script EXCEPT !.enhancementButton = bar,
                                                    !.enhancementModal = TRUE]]]
        ELSE [page |-> st.page, scripts |-> [st.scripts EXCEPT ![i] = script]]

\* the listeners of DOMContentLoaded of the instances i.. run, in the order in
\* which init registered them (line 40)
RECURSIVE dispatchContentLoaded(_, _)
dispatchContentLoaded(st, i) ==
    IF i > MaxInjections THEN st
    ELSE dispatchContentLoaded(IF st.scripts[i].pc = "loading"
                               THEN setupEnhancement(st, i) ELSE st,
                               i + 1)

\* openModal with positionModal (lines 229-246, 294-304)
openModal(script) ==
    IF ~script.enhancementModal THEN script
    ELSE [script EXCEPT !.display = "block", !.show = TRUE, !.isModalOpen = TRUE]

\* closeModal (lines 249-265)
closeModal(script) ==
    IF ~script.enhancementModal THEN script
    ELSE [script EXCEPT !.isModalOpen = FALSE, !.show = FALSE]

\* the modal of an instance is rendered: its inline display value decides, and
\* without one the rules .ai-enhancer-modal and .ai-enhancer-modal.show do
\* (lines 490-508)
displayed(script) ==
    IF script.display # "" THEN script.display = "block" ELSE script.show

\* content.js is executed in the document once more, declared by the manifest or
\* by the background's tabs.onUpdated listener (part_002 lines 470-485): init
\* (lines 34-54, 641-642)
Inject(i) ==
    /\ scripts[i].pc = "none"
    /\ \A j \in Instances : j < i => scripts[j].pc # "none"
    /\ LET started == [scripts EXCEPT ![i].isInitialized = TRUE, ![i].pc = "loading"]
           st == IF page.readyState = "loading"
                 THEN [page |-> page, scripts |-> started]
                 ELSE setupEnhancement([page |-> page, scripts |-> started], i)
       IN  /\ page' = st.page
           /\ scripts' = st.scripts
    /\ UNCHANGED enhanceVars

\* the document fires DOMContentLoaded
DOMContentLoaded ==
    /\ page.readyState = "loading"
    /\ LET st == dispatchContentLoaded(
                     [page |-> [page EXCEPT !.readyState = "interactive"],
                      scripts |-> scripts], 1)
       IN  /\ page' = st.page
           /\ scripts' = st.scripts
    /\ UNCHANGED enhanceVars

\* the timer of findGoogleSearchBar fires (line 100): the next lookup, whose
\* result goes to no one
FindRetryTimer(i) ==
    /\ scripts[i].find = "timer"
    /\ scripts' = [scripts EXCEPT ![i] =
                      IF visibleBar(page) # 0
                      THEN [@ EXCEPT !.find = "found", !.retryCount = @ + 1]
                      ELSE findGoogleSearchBar(@, page, @.retryCount + 1)]
    /\ UNCHANGED <<page, enhanceVars>>

\* the page renders a search bar
BarAppears(b) ==
    /\ ~page.bars[b].visible
    /\ page' = [page EXCEPT !.bars[b].visible = TRUE]
    /\ UNCHANGED <<scripts, enhanceVars>>

\* the page hides a search bar
BarHides(b) ==
    /\ page.bars[b].visible
    /\ page' = [page EXCEPT !.bars[b].visible = FALSE]
    /\ UNCHANGED <<scripts, enhanceVars>>

\* a click on the enhancement button of an instance: toggleModal (lines 127-131,
\* 219-226)
ClickButton(i) ==
    /\ scripts[i].enhancementButton # 0
    /\ scripts' = [scripts EXCEPT ![i] = IF @.isModalOpen THEN closeModal(@)
                                         ELSE openModal(@)]
    /\ resultVisible' = IF scripts[i].isModalOpen THEN FALSE ELSE resultVisible
    /\ UNCHANGED <<page, inputValue, btnDisabled, calls, resultContent>>

\* a click outside the modal and the button of an instance whose modal is open:
\* handleOutsideClick (lines 268-274)
ClickOutside(i) ==
    /\ scripts[i].isInitialized
    /\ scripts[i].isModalOpen
    /\ scripts' = [scripts EXCEPT ![i] = closeModal(@)]
    /\ resultVisible' = FALSE
    /\ UNCHANGED <<page, inputValue, btnDisabled, calls, resultContent>>

\* the document with its first search bar enhanced by the first instance, and
\* the modal open
ModalOpened ==
    /\ page = [readyState |-> "complete",
               bars |-> [b \in Bars |->
                            IF b = 1
                            THEN [visible |-> TRUE, enhanced |-> TRUE, buttons |-> 1,
                                  modals |-> 1]
                            ELSE HiddenBar]]
    /\ scripts = [i \in Instances |->
                     IF i = 1
                     THEN [NoScript EXCEPT !.pc = "ready", !.isInitialized = TRUE,
                                           !.enhancementButton = 1,
                                           !.enhancementModal = TRUE,
                                           !.isModalOpen = TRUE, !.show = TRUE,
                                           !.display = "block"]
                     ELSE NoScript]

\* the modal as created: empty prompt field, Enhance enabled, no result
ContentIdle ==
    /\ ModalOpened
    /\ inputValue = <<>>
    /\ btnDisabled = FALSE
    /\ calls = [c \in Clicks |-> NoCall]
    /\ resultContent = <<>>
    /\ resultVisible = FALSE

vars == <<rwVars, bgVars, ctVars>>

-----------------------------------------------------------------------------
(* Specifications of the background service worker.                        *)

\* chrome.storage.sync as onInstalled leaves it
InstalledSettings ==
    [enhanceClarity |-> "true", addContext |-> "true", improveStructure |-> "false"]

BackgroundIdle ==
    /\ req = [r \in Slots |-> IdleRequest]
    /\ usageStats = EmptyStats
    /\ totalPrompts = 0
    /\ totalEnhancements = 0
    /\ lastUpdated = 0
    /\ settings = InstalledSettings
    /\ now = StartDay
    /\ cleanup = IdleCleanup
    /\ cleanups = 0
    /\ logged = EmptyStats
    /\ answered = 0

(* One enhancePrompt message at a time, with every kind of payload and of   *)
(* fault, on a freshly installed extension.                                *)

HandlerPrompts ==
    { <<>>, W_space, W_hi, W_summarize_this_article, W_PLEASE \o W_FORMAT,
      W_please_act_as_a_guide }

HandlerOptions == BooleanOptions \cup {EmptyOptions, NoOptions}

HandlerFaults == [clarity : FaultKinds, context : FaultKinds, structure : FaultKinds]

HandlerInit ==
    /\ RewriterIdle
    /\ ContentIdle
    /\ BackgroundIdle

HandlerNext ==
    \/ \E p \in HandlerPrompts, o \in HandlerOptions, f \in HandlerFaults :
          ReceiveEnhancePrompt(1, p, o, f) /\ UNCHANGED <<rwVars, ctVars>>
    \/ \E e \in BOOLEAN : LogGetCallback(1, e) /\ UNCHANGED <<rwVars, ctVars>>
    \/ \E e \in BOOLEAN : LogSetCallback(1, e) /\ UNCHANGED <<rwVars, ctVars>>

SpecHandler == HandlerInit /\ [][HandlerNext]_vars

\* the callbacks of the chrome.storage calls of logUsage eventually fire
SpecHandlerLive ==
    /\ SpecHandler
    /\ WF_vars(\E e \in BOOLEAN : LogGetCallback(1, e) /\ UNCHANGED <<rwVars, ctVars>>)
    /\ WF_vars(\E e \in BOOLEAN : LogSetCallback(1, e) /\ UNCHANGED <<rwVars, ctVars>>)

(* Concurrent messages and the periodic cleanup on stored statistics;      *)
(* the calls of logUsage never fail.                                       *)

\* the entries logged by n enhancements, the first old of them on OldDay
StoredEntries(n, old) ==
    [i \in 1..n |-> Entry(IF i <= old THEN OldDay ELSE RecentDay, i)]

InitialEnhancements == {0, 2, CONFIG_maxStorageEntries}

SettingsUpdates ==
    { [NoSettingsData EXCEPT !.improveStructure = "true"],
      [NoSettingsData EXCEPT !.enhanceClarity = "false"] }

StatsInit ==
    /\ RewriterIdle
    /\ ContentIdle
    /\ req = [r \in Slots |-> IdleRequest]
    /\ settings = InstalledSettings
    /\ now = StartDay
    /\ cleanup = IdleCleanup
    /\ cleanups = 0
    /\ \E n \in InitialEnhancements, old \in {0, 1, 2, CONFIG_maxStorageEntries},
          s \in {"none", "old", "recent"} :
          /\ old \in {0, 1, n}
          /\ logged = [a \in LogActions |->
                          IF a = "prompt_enhanced" THEN StoredEntries(n, old)
                          ELSE IF s = "none" THEN <<>>
                          ELSE <<Entry(IF s = "old" THEN OldDay ELSE RecentDay, n + 1)>>]
          /\ totalPrompts = n
          /\ totalEnhancements = n
          /\ answered = n
          /\ lastUpdated = IF s = "recent" \/ (s = "none" /\ n > 0 /\ old < n) THEN RecentDay
                           ELSE IF s = "old" \/ n > 0 THEN OldDay
                           ELSE 0
    /\ usageStats = [a \in LogActions |-> sliceLast(logged[a], CONFIG_maxStorageEntries)]

StatsNext ==
    \/ \E r \in Slots : ReceiveEnhancePrompt(r, W_hi, PageOptions, NoFaults) /\ UNCHANGED <<rwVars, ctVars>>
    \/ \E r \in Slots, d \in SettingsUpdates : ReceiveUpdateSettings(r, d) /\ UNCHANGED <<rwVars, ctVars>>
    \/ \E r \in Slots : SyncSetCallback(r, FALSE) /\ UNCHANGED <<rwVars, ctVars>>
    \/ \E r \in Slots : LogGetCallback(r, FALSE) /\ UNCHANGED <<rwVars, ctVars>>
    \/ \E r \in Slots : LogSetCallback(r, FALSE) /\ UNCHANGED <<rwVars, ctVars>>
    \/ CleanupStart /\ UNCHANGED <<rwVars, ctVars>>
    \/ \E e \in BOOLEAN : CleanupGetCallback(e) /\ UNCHANGED <<rwVars, ctVars>>
    \/ \E e \in BOOLEAN : CleanupSetCallback(e) /\ UNCHANGED <<rwVars, ctVars>>
    \/ Tick /\ UNCHANGED <<rwVars, ctVars>>

SpecStats == StatsInit /\ [][StatsNext]_vars

(* The content script with a user who types and clicks, and a transport    *)
(* that answers or fails.                                                  *)

ContentInit ==
    /\ RewriterIdle
    /\ BackgroundIdle
    /\ ContentIdle

ContentNext ==
    \/ \E v \in InputValues : TypeInput(v) /\ UNCHANGED <<rwVars, bgVars, domVars>>
    \/ \E c \in Clicks : ClickEnhance(c) /\ UNCHANGED <<rwVars, bgVars, domVars>>
    \/ \E c \in Clicks : ResponseCallback(c) /\ UNCHANGED <<rwVars, bgVars, domVars>>
    \/ \E c \in Clicks, m \in TransportErrors :
          LastErrorCallback(c, m) /\ UNCHANGED <<rwVars, bgVars, domVars>>
    \/ \E c \in Clicks : RetryTimer(c) /\ UNCHANGED <<rwVars, bgVars, domVars>>

SpecContent == ContentInit /\ [][ContentNext]_vars

-----------------------------------------------------------------------------
(* Clicks on Enhance with the prompt field already filled in: every sent   *)
(* message gets its callback and every retry timer fires.                  *)

ClickInit ==
    /\ RewriterIdle
    /\ BackgroundIdle
    /\ ModalOpened
    /\ inputValue = W_space \o W_hi \o W_space
    /\ btnDisabled = FALSE
    /\ calls = [c \in Clicks |-> NoCall]
    /\ resultContent = <<>>
    /\ resultVisible = FALSE

ClickNext ==
    \/ \E c \in Clicks : ClickEnhance(c) /\ UNCHANGED <<rwVars, bgVars, domVars>>
    \/ \E c \in Clicks : ResponseCallback(c) /\ UNCHANGED <<rwVars, bgVars, domVars>>
    \/ \E c \in Clicks, m \in TransportErrors :
          LastErrorCallback(c, m) /\ UNCHANGED <<rwVars, bgVars, domVars>>
    \/ \E c \in Clicks : RetryTimer(c) /\ UNCHANGED <<rwVars, bgVars, domVars>>

\* the callback of the message a click has in flight
SendMessageCallback(c) ==
    \/ \E m \in TransportErrors :
          LastErrorCallback(c, m) /\ UNCHANGED <<rwVars, bgVars, domVars>>
    \/ ResponseCallback(c) /\ UNCHANGED <<rwVars, bgVars, domVars>>

SpecClick ==
    /\ ClickInit
    /\ [][ClickNext]_vars
    /\ \A c \in Clicks : WF_vars(SendMessageCallback(c))
    /\ \A c \in Clicks : WF_vars(RetryTimer(c) /\ UNCHANGED <<rwVars, bgVars, domVars>>)

(* updateSettings messages with arbitrary data, and getSettings messages.  *)

\* the data of updateSettings messages: any value under any of the three keys
ArbitraryData ==
    { [NoSettingsData EXCEPT !.improveStructure = "true"],
      [NoSettingsData EXCEPT !.improveStructure = "yes"],
      [NoSettingsData EXCEPT !.enhanceClarity = "null", !.improveStructure = "null"],
      [NoSettingsData EXCEPT !.enhanceClarity = "false", !.addContext = "yes"],
      [enhanceClarity |-> "yes", addContext |-> "false", improveStructure |-> "false"] }

\* chrome.runtime.onInstalled before any message (lines 18-42): the reason
\* 'install' writes the default settings, the reason 'update' writes nothing
OnInstalled(reason) ==
    /\ req[1].kind = "none"
    /\ settings = NoSettingsData
    /\ reason = "install"
    /\ settings' = mergeSettings(settings, InstalledSettings)
    /\ UNCHANGED <<req, localVars, now, cleanup, cleanups, logged, answered>>

\* chrome.storage.sync holds no key before onInstalled has run
SettingsInit ==
    /\ RewriterIdle
    /\ ContentIdle
    /\ req = [r \in Slots |-> IdleRequest]
    /\ usageStats = EmptyStats
    /\ totalPrompts = 0
    /\ totalEnhancements = 0
    /\ lastUpdated = 0
    /\ settings = NoSettingsData
    /\ now = StartDay
    /\ cleanup = IdleCleanup
    /\ cleanups = 0
    /\ logged = EmptyStats
    /\ answered = 0

SettingsNext ==
    \/ \E reason \in {"install", "update"} :
          OnInstalled(reason) /\ UNCHANGED <<rwVars, ctVars>>
    \/ \E r \in Slots, d \in ArbitraryData :
          ReceiveUpdateSettings(r, d) /\ UNCHANGED <<rwVars, ctVars>>
    \/ \E r \in Slots, e \in BOOLEAN : SyncSetCallback(r, e) /\ UNCHANGED <<rwVars, ctVars>>
    \/ \E r \in Slots, e \in BOOLEAN : LogGetCallback(r, e) /\ UNCHANGED <<rwVars, ctVars>>
    \/ \E r \in Slots, e \in BOOLEAN : LogSetCallback(r, e) /\ UNCHANGED <<rwVars, ctVars>>
    \/ \E r \in Slots : ReceiveGetSettings(r) /\ UNCHANGED <<rwVars, ctVars>>
    \/ \E r \in Slots, e \in BOOLEAN : SyncGetCallback(r, e) /\ UNCHANGED <<rwVars, ctVars>>

SpecSettings == SettingsInit /\ [][SettingsNext]_vars

(* The page modal used while the stored settings are being updated.        *)

PageInit ==
    /\ RewriterIdle
    /\ BackgroundIdle
    /\ ContentIdle

PageNext ==
    \/ \E d \in SettingsUpdates : ReceiveUpdateSettings(1, d) /\ UNCHANGED <<rwVars, ctVars>>
    \/ \E e \in BOOLEAN : SyncSetCallback(1, e) /\ UNCHANGED <<rwVars, ctVars>>
    \/ \E e \in BOOLEAN : LogGetCallback(1, e) /\ UNCHANGED <<rwVars, ctVars>>
    \/ \E e \in BOOLEAN : LogSetCallback(1, e) /\ UNCHANGED <<rwVars, ctVars>>
    \/ \E v \in InputValues : TypeInput(v) /\ UNCHANGED <<rwVars, bgVars, domVars>>
    \/ \E c \in Clicks : ClickEnhance(c) /\ UNCHANGED <<rwVars, bgVars, domVars>>
    \/ \E c \in Clicks : ResponseCallback(c) /\ UNCHANGED <<rwVars, bgVars, domVars>>

SpecPage == PageInit /\ [][PageNext]_vars

-----------------------------------------------------------------------------
(* The content script in a document: injections, the search bars the page  *)
(* shows and hides, the retries of the lookup, clicks on the button and    *)
(* outside the modal.                                                      *)

DomInit ==
    /\ RewriterIdle
    /\ BackgroundIdle
    /\ inputValue = <<>>
    /\ btnDisabled = FALSE
    /\ calls = [c \in Clicks |-> NoCall]
    /\ resultContent = <<>>
    /\ resultVisible = FALSE
    /\ \E shown \in SUBSET Bars :
          page = [readyState |-> "loading",
                  bars |-> [b \in Bars |-> [HiddenBar EXCEPT !.visible = b \in shown]]]
    /\ scripts = [i \in Instances |-> NoScript]

DomNext ==
    \/ \E i \in Instances : Inject(i) /\ UNCHANGED <<rwVars, bgVars>>
    \/ DOMContentLoaded /\ UNCHANGED <<rwVars, bgVars>>
    \/ \E i \in Instances : FindRetryTimer(i) /\ UNCHANGED <<rwVars, bgVars>>
    \/ \E b \in Bars : BarAppears(b) /\ UNCHANGED <<rwVars, bgVars>>
    \/ \E b \in Bars : BarHides(b) /\ UNCHANGED <<rwVars, bgVars>>
    \/ \E i \in Instances : ClickButton(i) /\ UNCHANGED <<rwVars, bgVars>>
    \/ \E i \in Instances : ClickOutside(i) /\ UNCHANGED <<rwVars, bgVars>>

SpecDom == DomInit /\ [][DomNext]_vars

-----------------------------------------------------------------------------
(* The rewriter as a function: processEnhancement applied to a prompt, and *)
(* applied again, with the same options, to its own result.                *)

Init ==
    /\ BackgroundIdle
    /\ ContentIdle
    /\ rwPrompt \in Texts
    /\ rwOptions \in BooleanOptions \cup {EmptyOptions}
    /\ rwCalls = 0
    /\ rwFirst = Returned(<<>>)
    /\ rwSecond = Returned(<<>>)

Rewrite ==
    /\ rwCalls = 0
    /\ rwFirst' = processEnhancement(rwPrompt, rwOptions, NoFaults)
    /\ rwCalls' = 1
    /\ UNCHANGED <<rwPrompt, rwOptions, rwSecond, bgVars, ctVars>>

RewriteAgain ==
    /\ rwCalls = 1
    /\ ~rwFirst.threw
    /\ rwSecond' = processEnhancement(rwFirst.value, rwOptions, NoFaults)
    /\ rwCalls' = 2
    /\ UNCHANGED <<rwPrompt, rwOptions, rwFirst, bgVars, ctVars>>

Next ==
    \/ Rewrite
    \/ RewriteAgain

Spec == Init /\ [][Next]_vars

-----------------------------------------------------------------------------
\* C1: rewriting is idempotent: a second call with the same options on the
\* first call's output returns that output unchanged.
C1_Idempotent ==
    rwCalls = 2 => rwSecond.value = rwFirst.value

\* C2: for every non-empty text and every combination of the option flags,
\* processEnhancement returns a string at least as long as the input, and the
\* input occurs unchanged as a contiguous part of the result.
C2_OnlyGrows ==
    (rwCalls >= 1 /\ Len(rwPrompt) > 0) =>
        /\ ~rwFirst.threw
        /\ Len(rwFirst.value) >= Len(rwPrompt)
        /\ includes(rwFirst.value, rwPrompt)

\* a non-empty text that came back longer, with text before and after it
C2_Witness ==
    /\ rwCalls = 1
    /\ Len(rwPrompt) > 0
    /\ Truthy(rwOptions.enhanceClarity)
    /\ Len(rwFirst.value) > Len(rwPrompt) + Len(PleasePrefix)
    /\ SubSeq(rwFirst.value, 1, Len(PleasePrefix)) = PleasePrefix
    /\ SubSeq(rwFirst.value, Len(PleasePrefix) + 1, Len(PleasePrefix) + Len(rwPrompt)) = rwPrompt

\* C3: with enhanceClarity, addContext and improveStructure all false, or all
\* absent from the options object, processEnhancement returns exactly the input.
C3_Identity ==
    ( /\ rwCalls >= 1
      /\ ~Truthy(rwOptions.enhanceClarity)
      /\ ~Truthy(rwOptions.addContext)
      /\ ~Truthy(rwOptions.improveStructure) ) =>
        rwFirst = Returned(rwPrompt)

\* the rewriter was called with {} on a text that every step would change
C3_Witness ==
    /\ rwCalls = 1
    /\ rwOptions = EmptyOptions
    /\ rwPrompt = W_hi
    /\ rwFirst = Returned(W_hi)

\* the options with every step disabled whose fault is not "none"
WithoutFaultedSteps(options, faults) ==
    [options EXCEPT
        !.enhanceClarity = IF faults.clarity # "none" THEN "false" ELSE @,
        !.addContext = IF faults.context # "none" THEN "false" ELSE @,
        !.improveStructure = IF faults.structure # "none" THEN "false" ELSE @]

\* C4: fault containment: a step whose transformation raises an error returns
\* its input unchanged, the other enabled steps are applied in order as without
\* the fault, and the enhancePrompt request is answered once, with success = true.
C4_FaultContained ==
    \A r \in Slots :
        ( /\ req[r].kind = "enhancePrompt"
          /\ req[r].pc = "done"
          /\ Len(trim(req[r].prompt)) > 0
          /\ req[r].options.defined ) =>
            /\ Len(req[r].responses) = 1
            /\ req[r].responses[1].success
            /\ req[r].responses[1].enhancedPrompt =
                  processEnhancement(req[r].prompt,
                                     WithoutFaultedSteps(req[r].options, req[r].faults),
                                     NoFaults).value

\* the clarity step raised in its second insertion, after it had prefixed the
\* text, and the context step changed the text it returned
C4_Witness ==
    /\ req[1].kind = "enhancePrompt"
    /\ req[1].pc = "done"
    /\ req[1].prompt = W_hi
    /\ req[1].options = PageOptions
    /\ req[1].faults = [clarity |-> "second", context |-> "none", structure |-> "none"]
    /\ Len(req[1].responses) = 1
    /\ req[1].responses[1].success
    /\ req[1].responses[1].enhancedPrompt = PersonaPrefix \o W_hi \o LearnerClosing

\* a click on Enhance whose request has neither succeeded nor finally failed
InFlight(c) == calls[c].pc \in {"sent", "timer"}

\* C5: from the moment the Enhance button starts a request until that request,
\* with all of its transport retries, has succeeded or finally failed, the button
\* stays disabled, and at most one request triggered from the modal is in flight.
C5_OneInFlight ==
    /\ \A c \in Clicks : InFlight(c) => btnDisabled
    /\ Cardinality({c \in Clicks : InFlight(c)}) <= 1

\* C6: for one click on Enhance the content script makes at most 3 attempts to
\* send the enhancePrompt message.
C6_AtMostThreeAttempts ==
    \A c \in Clicks : calls[c].sends <= 3

\* no message is being handled by the background
Quiescent == \A r \in Slots : req[r].pc \in {"idle", "done"}

\* C7: when cleanupOldUsageData completes without a storage error, the persisted
\* usageStats hold no entry older than the retention horizon of that run.
C7_CleanupEvictsOld ==
    [][ (cleanup.pc # "done" /\ cleanup'.pc = "done" /\ ~cleanup'.failed) =>
            \A a \in LogActions : \A i \in 1..Len(usageStats'[a]) :
                usageStats'[a][i].timestamp >= cleanup'.cutoffDate ]_vars

\* C8: after any sequence of logUsage calls (and no cleanup) the persisted list of
\* every action holds at most 100 entries, and once more than 100 events of an
\* action were logged and every call has completed, it holds exactly the 100
\* most recently logged ones, in logging order.
C8_LastHundredKept ==
    cleanups = 0 =>
        \A a \in LogActions :
            /\ Len(usageStats[a]) <= CONFIG_maxStorageEntries
            /\ (Quiescent /\ Len(logged[a]) > CONFIG_maxStorageEntries) =>
                   usageStats[a] = sliceLast(logged[a], CONFIG_maxStorageEntries)

\* C9: under any interleaving of the storage callbacks of concurrently handled
\* enhancePrompt and updateSettings requests, totalPrompts never decreases, and
\* once all requests have completed it equals the number of enhancePrompt
\* requests answered with success = true.
C9_CountersNeverLost ==
    [][ /\ totalPrompts' >= totalPrompts
        /\ Quiescent' => totalPrompts' = answered' ]_vars

\* C10: when the user clicks Enhance while the prompt field is empty or
\* whitespace-only, no message is sent for a text to rewrite, and the click ends
\* with an error notification instead of an enhanced prompt.
C10_EmptyInputRejected ==
    \A c \in Clicks :
        (calls[c].pc = "done" /\ Len(trim(calls[c].typed)) = 0) =>
            /\ calls[c].sends = 0
            /\ calls[c].notifications = <<"error">>

\* C11: an enhancePrompt message whose prompt is empty or whitespace-only is
\* answered with success = false and an error, and nothing else happens: no
\* rewrite step runs, nothing is retried, logUsage is not called, and usageStats,
\* totalPrompts, totalEnhancements and lastUpdated stay as they were.
C11_EmptyPromptRefused ==
    ( /\ req[1].kind = "enhancePrompt"
      /\ Len(trim(req[1].prompt)) = 0 ) =>
        /\ req[1].pc = "done"
        /\ req[1].responses = <<FailureResponse("No prompt provided")>>
        /\ req[1].enhanced = <<>>
        /\ req[1].retryCount = 0
        /\ req[1].logAction = "none"
        /\ logged = EmptyStats
        /\ usageStats = EmptyStats
        /\ totalPrompts = 0
        /\ totalEnhancements = 0
        /\ lastUpdated = 0

\* a whitespace-only prompt, sent with options that enable steps, was refused
C11_Witness ==
    /\ req[1].kind = "enhancePrompt"
    /\ req[1].prompt = W_space
    /\ req[1].options = PageOptions
    /\ req[1].pc = "done"
    /\ Len(req[1].responses) = 1
    /\ ~req[1].responses[1].success
    /\ req[1].responses[1].error = "No prompt provided"

\* C12: settings are read at request time: the option flags of an enhancement
\* started from the page modal are the stored settings' values at the time of
\* the request, so after a successful updateSettings the next enhancement from
\* the page applies the steps the updated settings enable.
C12_SettingsReadAtRequest ==
    [][ \A c \in Clicks :
            (calls[c].pc # "sent" /\ calls'[c].pc = "sent") =>
                /\ calls'[c].options.defined
                /\ Truthy(calls'[c].options.enhanceClarity) = Truthy(settings.enhanceClarity)
                /\ Truthy(calls'[c].options.addContext) = Truthy(settings.addContext)
                /\ Truthy(calls'[c].options.improveStructure) =
                      Truthy(settings.improveStructure) ]_vars

\* C13: fallback on failure: when the processing of an enhancePrompt request
\* with a non-empty prompt fails in the background, the response still carries
\* the original prompt as its result, not an error alone.
C13_FallbackOnFailure ==
    \A r \in Slots :
        ( /\ req[r].kind = "enhancePrompt"
          /\ req[r].pc = "done"
          /\ Len(trim(req[r].prompt)) > 0
          /\ \E i \in 1..Len(req[r].responses) : ~req[r].responses[i].success ) =>
            \E i \in 1..Len(req[r].responses) :
                /\ "enhancedPrompt" \in req[r].responses[i].keys
                /\ req[r].responses[i].enhancedPrompt = req[r].prompt

\* C14: settings type correctness: after any sequence of updateSettings requests,
\* whatever values their data hold, every successful getSettings response carries
\* enhanceClarity, addContext and improveStructure that are each exactly true or
\* false.
C14_SettingsAreBooleans ==
    \A r \in Slots :
        \A i \in 1..Len(req[r].responses) :
            (req[r].kind = "getSettings" /\ req[r].responses[i].success) =>
                /\ req[r].responses[i].settings.enhanceClarity \in {"true", "false"}
                /\ req[r].responses[i].settings.addContext \in {"true", "false"}
                /\ req[r].responses[i].settings.improveStructure \in {"true", "false"}

\* the properties of a response to an enhancePrompt message agree with success
WellShaped(response) ==
    IF response.success
    THEN /\ response.keys = {"success", "enhancedPrompt", "stats"}
         /\ DOMAIN response.stats = {"originalLength", "enhancedLength", "improvement"}
    ELSE /\ response.keys = {"success", "error"}
         /\ response.error # ""

\* C15: every enhancePrompt message receives exactly one response, given that
\* the storage callbacks eventually fire; a response with success = true carries
\* enhancedPrompt and stats {originalLength, enhancedLength, improvement} and no
\* error, one with success = false carries error and no enhancedPrompt.
C15_ExactlyOneResponse ==
    /\ [](\A r \in Slots :
             req[r].kind = "enhancePrompt" =>
                 /\ Len(req[r].responses) <= 1
                 /\ req[r].pc = "done" => Len(req[r].responses) = 1
                 /\ \A i \in 1..Len(req[r].responses) : WellShaped(req[r].responses[i]))
    /\ \A r \in Slots :
          (req[r].kind = "enhancePrompt") ~> (req[r].pc = "done" /\ Len(req[r].responses) = 1)

\* a message was answered once, with success = true, after logUsage had stored
\* its entry
C15_Witness ==
    /\ req[1].kind = "enhancePrompt"
    /\ req[1].pc = "done"
    /\ req[1].prompt = W_hi
    /\ req[1].options = OptionsObject("false", "false", "true")
    /\ req[1].responses = <<SuccessResponse(W_hi, W_hi \o OrganizeClosing \o SummaryClosing)>>
    /\ totalPrompts = 1

Contains(text, guard) == includes(toLowerCase(text), guard)

\* exactly one of the three steps is enabled in the options of the call
OnlyStep(flag) ==
    /\ rwCalls >= 1
    /\ \A k \in {"enhanceClarity", "addContext", "improveStructure"} :
          Truthy(rwOptions[k]) <=> k = flag

\* C17: clarity step: with only enhanceClarity enabled, "Please " is prepended
\* exactly when the text contains neither "please" nor "could you", and the
\* closing sentence is appended exactly when the text contains neither "format"
\* nor "output"; the two decisions are independent, each made on the text as
\* received.
C17_ClarityStep ==
    OnlyStep("enhanceClarity") =>
        rwFirst = Returned(
            (IF ~Contains(rwPrompt, G_please) /\ ~Contains(rwPrompt, G_could_you)
             THEN PleasePrefix ELSE <<>>)
            \o rwPrompt \o
            (IF ~Contains(rwPrompt, G_format) /\ ~Contains(rwPrompt, G_output)
             THEN ClarityClosing ELSE <<>>))

\* "summarize this article" came back as "Please " + text + closing sentence
C17_Witness ==
    /\ rwCalls = 1
    /\ rwPrompt = W_summarize_this_article
    /\ rwOptions = OptionsObject("true", "false", "false")
    /\ rwFirst.value = PleasePrefix \o W_summarize_this_article \o ClarityClosing

\* C18: context step: with only addContext enabled, the persona sentence is
\* prepended exactly when the text contains neither "as a" nor "acting as", and
\* the learner sentence is appended exactly when the text contains neither "for"
\* nor "targeting", whether or not the prefix was added; a text with one guard of
\* each pair comes back unchanged.
C18_ContextStep ==
    OnlyStep("addContext") =>
        rwFirst = Returned(
            (IF ~Contains(rwPrompt, G_as_a) /\ ~Contains(rwPrompt, G_acting_as)
             THEN PersonaPrefix ELSE <<>>)
            \o rwPrompt \o
            (IF ~Contains(rwPrompt, G_for) /\ ~Contains(rwPrompt, G_targeting)
             THEN LearnerClosing ELSE <<>>))

\* "as a teacher, explain this for students" came back unchanged
C18_Witness ==
    /\ rwCalls = 1
    /\ rwPrompt = W_as_a_teacher_explain
    /\ rwOptions = OptionsObject("false", "true", "false")
    /\ rwFirst.value = W_as_a_teacher_explain

\* C19: structure step: with only improveStructure enabled, the organize
\* sentence is appended exactly when the text contains none of "list", "bullet",
\* "step", and the summary sentence is appended exactly when the text contains
\* neither "summary" nor "conclusion", whether or not the first was appended.
C19_StructureStep ==
    OnlyStep("improveStructure") =>
        rwFirst = Returned(
            rwPrompt \o
            (IF /\ ~Contains(rwPrompt, G_list)
                /\ ~Contains(rwPrompt, G_bullet)
                /\ ~Contains(rwPrompt, G_step)
             THEN OrganizeClosing ELSE <<>>)
            \o
            (IF ~Contains(rwPrompt, G_summary) /\ ~Contains(rwPrompt, G_conclusion)
             THEN SummaryClosing ELSE <<>>))

\* a text that names a list got the summary sentence alone
C19_Witness ==
    /\ rwCalls = 1
    /\ rwPrompt = W_hi \o W_list
    /\ rwOptions = OptionsObject("false", "false", "true")
    /\ rwFirst.value = W_hi \o W_list \o SummaryClosing

\* C20: in every success response, stats.improvement is
\* (enhancedLength - originalLength) / originalLength * 100 rounded to the nearest
\* integer, halves up, with originalLength the length of the received prompt and
\* enhancedLength that of the returned text; the divisor is not zero and the
\* value is a non-negative integer.
C20_ImprovementRounded ==
    \A r \in Slots :
        \A i \in 1..Len(req[r].responses) :
            (req[r].kind = "enhancePrompt" /\ req[r].responses[i].success) =>
                LET stats == req[r].responses[i].stats
                    o == Len(req[r].prompt)
                    e == Len(req[r].responses[i].enhancedPrompt)
                IN  /\ stats.originalLength = o
                    /\ stats.enhancedLength = e
                    /\ o > 0
                    /\ stats.improvement \in Nat
                    /\ 2 * o * stats.improvement - o <= 200 * (e - o)
                    /\ 200 * (e - o) < 2 * o * stats.improvement + o

\* the value handleGetSettings is to report for a key that was never written
DefaultSetting(k) == IF k = "improveStructure" THEN "false" ELSE "true"

\* C21: settings defaults: a getSettings request answered from storage in which
\* a key was never written reports the default of that key (enhanceClarity true,
\* addContext true, improveStructure false), and directly after installation it
\* reports true, true, false.
C21_SettingsDefaults ==
    [][ \A r \in Slots :
            ( /\ req[r].pc = "sync_get"
              /\ req'[r].pc = "done"
              /\ req'[r].responses[1].success ) =>
                /\ \A k \in DOMAIN settings :
                      settings[k] = "undefined" =>
                          req'[r].responses[1].settings[k] = DefaultSetting(k)
                /\ settings = InstalledSettings =>
                      req'[r].responses[1].settings = InstalledSettings ]_vars

\* getSettings was answered true, true, false from storage that holds no key
C21_Witness ==
    /\ settings = NoSettingsData
    /\ req[1].kind = "getSettings"
    /\ req[1].pc = "done"
    /\ req[1].responses[1].success
    /\ req[1].responses[1].settings = InstalledSettings

\* the text an insertion adds: its sentence when its flag is on and the text as
\* received holds none of its guard phrases, nothing otherwise
Insertion(flag, guards, sentence) ==
    IF Truthy(rwOptions[flag]) /\ \A g \in guards : ~Contains(rwPrompt, g)
    THEN sentence ELSE <<>>

\* C22: fixed order and independence of the steps: for every text and options the
\* result is that of clarity, then context, then structure, and each of the six
\* insertions happens exactly when its flag is on and the text as received lacks
\* that insertion's guard phrases: no text an earlier step inserted suppresses or
\* triggers an insertion of a later step.
C22_FixedOrderIndependent ==
    rwCalls >= 1 =>
        rwFirst = Returned(
            Insertion("addContext", {G_as_a, G_acting_as}, PersonaPrefix)
            \o Insertion("enhanceClarity", {G_please, G_could_you}, PleasePrefix)
            \o rwPrompt
            \o Insertion("enhanceClarity", {G_format, G_output}, ClarityClosing)
            \o Insertion("addContext", {G_for, G_targeting}, LearnerClosing)
            \o Insertion("improveStructure", {G_list, G_bullet, G_step}, OrganizeClosing)
            \o Insertion("improveStructure", {G_summary, G_conclusion}, SummaryClosing))

\* with the three flags on, "hi" got the six insertions, the persona sentence
\* before "Please " and the closing sentences in the order of the steps
C22_Witness ==
    /\ rwCalls = 1
    /\ rwPrompt = W_hi
    /\ rwOptions = OptionsObject("true", "true", "true")
    /\ rwFirst.value = PersonaPrefix \o PleasePrefix \o W_hi \o ClarityClosing
                           \o LearnerClosing \o OrganizeClosing \o SummaryClosing

\* C24: a failure of usage logging never breaks an enhancement: when the storage
\* read or write of logUsage fails, the enhancePrompt request is still answered
\* with success = true and the enhanced prompt, and the response is sent only
\* after the logging attempt has finished.
C24_LoggingNeverBreaks ==
    \A r \in Slots :
        (req[r].kind = "enhancePrompt" /\ req[r].logAction = "prompt_enhanced") =>
            /\ req[r].pc \in {"log_get", "log_set", "done"}
            /\ req[r].pc \in {"log_get", "log_set"} => req[r].responses = <<>>
            /\ req[r].pc = "done" =>
                  req[r].responses =
                      <<SuccessResponse(req[r].prompt,
                                        processEnhancement(req[r].prompt, req[r].options,
                                                           req[r].faults).value)>>

\* logUsage was called and stored nothing, and the request was answered with the
\* enhanced prompt
C24_Witness ==
    /\ req[1].kind = "enhancePrompt"
    /\ req[1].logAction = "prompt_enhanced"
    /\ req[1].pc = "done"
    /\ req[1].prompt = W_summarize_this_article
    /\ req[1].options = PageOptions
    /\ req[1].faults = NoFaults
    /\ usageStats = EmptyStats
    /\ totalPrompts = 0
    /\ lastUpdated = 0
    /\ req[1].responses[1].success
    /\ req[1].responses[1].enhancedPrompt =
          PersonaPrefix \o PleasePrefix \o W_summarize_this_article
              \o ClarityClosing \o LearnerClosing

\* C23: when the first lookup of an instance found no search bar and a later
\* lookup, before the retries are exhausted, found one, the enhancement button
\* and the modal are added to the page: stated for the runs in which every
\* instance has finished its setup and no lookup is pending.
C23_RetryAddsButton ==
    (\A i \in Instances : scripts[i].pc = "ready" /\ scripts[i].find # "timer")
        => \A i \in Instances :
              scripts[i].find = "found"
                  => \E b \in Bars : page.bars[b].buttons > 0 /\ page.bars[b].modals > 0

\* C25: the modal of an instance is rendered exactly when its isModalOpen is
\* true, after any clicks on the enhancement button and outside the modal; after
\* closeModal neither the class 'show' nor an inline display value shows it.
C25_ModalVisibleIffOpen ==
    \A i \in Instances :
        scripts[i].enhancementModal
            => (displayed(scripts[i]) <=> scripts[i].isModalOpen)

\* C26: no search bar ever has more than one enhancement button or more than
\* one modal, however many times content.js is executed in the document and
\* setupEnhancement runs.
C26_OneButtonPerBar ==
    \A b \in Bars : page.bars[b].buttons <= 1 /\ page.bars[b].modals <= 1

\* C26 witness: a second instance has run setupEnhancement and found a search
\* bar that an earlier instance had marked; the bar has its one button and its
\* one modal and the second instance has added none.
C26_Witness ==
    /\ scripts[1].enhancementButton # 0
    /\ scripts[2].pc = "ready"
    /\ scripts[2].find = "idle"
    /\ scripts[2].enhancementButton = 0
    /\ ~scripts[2].enhancementModal
    /\ page.bars[scripts[1].enhancementButton].buttons = 1
    /\ page.bars[scripts[1].enhancementButton].modals = 1

\* one step of a click, as C27 allows it: a call that is done stays as it is; a
\* call ends with one notification and the Enhance button enabled; a call waits
\* for a retry only after a transport error with one of the two transient
\* signatures, and only while fewer than maxRetries retries were made
ClickStepAllowed(c) ==
    /\ calls[c].pc = "done" => calls'[c] = calls[c]
    /\ (calls[c].pc # "done" /\ calls'[c].pc = "done")
           => /\ Len(calls'[c].notifications) = 1
              /\ btnDisabled' = FALSE
    /\ (calls[c].pc # "timer" /\ calls'[c].pc = "timer")
           => /\ includesTransient(calls'[c].error)
              /\ calls[c].retryCount < config_maxRetries
    /\ calls'[c].pc # "done" => calls'[c].notifications = <<>>

\* C27: every click on Enhance ends, when each sent message gets its callback
\* and each retry timer fires, in exactly one notification with the Enhance
\* button enabled by the step that ends it; a retry follows only a transport
\* error that contains 'Could not establish connection' or 'Extension context
\* invalidated', at most maxRetries times, and never a response.
C27_ClickEndsInOneNotification ==
    /\ [][\A c \in Clicks : ClickStepAllowed(c)]_vars
    /\ [](\A c \in Clicks : calls[c].sends <= config_maxRetries + 1)
    /\ \A c \in Clicks :
          (calls[c].pc # "none")
              ~> (calls[c].pc = "done" /\ Len(calls[c].notifications) = 1)

\* C27 witness: a click whose message met a transient transport error at every
\* attempt has ended after the last retry with the one error notification, and
\* the Enhance button is enabled.
C27_Witness ==
    /\ calls[1].pc = "done"
    /\ calls[1].sends = config_maxRetries + 1
    /\ includesTransient(calls[1].error)
    /\ calls[1].notifications = <<"error">>
    /\ ~btnDisabled

====
